---- MODULE Spec2Model ----
(***************************************************************************)
(* Model of the amazi backend: the upload / confirm / listing routes       *)
(* (app/api/routes), the per-request database session (app/db/database.py) *)
(* and the parts of the extraction engine the upload route runs.           *)
(*                                                                         *)
(* Strings are tuples of one-character strings, so that strip, lower,      *)
(* suffix and lstrip are computed character by character.  An optional     *)
(* value is a tuple of length at most one: <<>> is None, <<v>> is v.       *)
(* A request handler advances one step per await (one database statement). *)
(***************************************************************************)
EXTENDS Integers, Sequences, FiniteSets, TLC

VARIABLES
    orgs,       \* committed rows of organizations (set of ids)
    employees,  \* committed rows of employees
    shifts,     \* committed rows of shifts
    uploads,    \* committed rows of timesheet_uploads
    runs,       \* committed rows of extraction_runs
    seq,        \* the autoincrement sequences of the four tables written by the API
    files,      \* the files of settings.storage_dir
    ocr,        \* pytesseract and PIL could be imported
    pc,         \* per request: where its handler stands
    kind,       \* per request: "confirm" or "upload"
    input,      \* per request: the ConfirmPayload, or the uploaded file
    local,      \* per request: the handler's local variables
    sess,       \* per request: the AsyncSession get_db yielded
    resp,       \* per request: the HTTP response, once the handler has ended
    overlap,    \* history: another request was in flight during this one
    snap,       \* history: the committed tables and files when the request arrived
    mig,        \* the schema of the database and the alembic command at work on it
    call,       \* a call of a function of the extraction engine and its result
    tally       \* history: the requests that have ended and what they reported

vars == <<orgs, employees, shifts, uploads, runs, seq, files, ocr,
          pc, kind, input, local, sess, resp, overlap, snap, mig, call, tally>>

\* what the handlers of the API leave alone
aside == <<mig, call, tally>>

history == <<overlap, snap>>

db == <<orgs, employees, shifts, uploads, runs>>

Reqs == {"r1", "r2"}

None == <<>>
Some(v) == <<v>>

(***************************************************************************)
(* Bounds of the model.                                                    *)
(***************************************************************************)
MaxEmps == 2
MaxShifts == 1
MaxRows == 1
MaxSheetRows == 2
MaxReqs == 3

SeqsUpTo(S, n) == UNION {[1..k -> S] : k \in 0..n}

(***************************************************************************)
(* String functions of the Python standard library, as the handlers use    *)
(* them.                                                                   *)
(***************************************************************************)
Whitespace == {" "}

RECURSIVE lstrip_ws(_)
lstrip_ws(s) ==
    IF s # <<>> /\ Head(s) \in Whitespace THEN lstrip_ws(Tail(s)) ELSE s

RECURSIVE rstrip_ws(_)
rstrip_ws(s) ==
    IF s # <<>> /\ s[Len(s)] \in Whitespace
    THEN rstrip_ws(SubSeq(s, 1, Len(s) - 1)) ELSE s

strip(s) == rstrip_ws(lstrip_ws(s))

ToLower ==
    [C |-> "c", D |-> "d", E |-> "e", F |-> "f", I |-> "i", L |-> "l", N |-> "n",
     O |-> "o", P |-> "p", S |-> "s", T |-> "t", V |-> "v"]

lower(s) ==
    [k \in 1..Len(s) |-> IF s[k] \in DOMAIN ToLower THEN ToLower[s[k]] ELSE s[k]]

RECURSIVE lstrip(_, _)
lstrip(s, c) == IF s # <<>> /\ Head(s) = c THEN lstrip(Tail(s), c) ELSE s

\* str.rfind, 1-based; 0 when the character does not occur
rfind(s, c) ==
    LET hits == {k \in 1..Len(s) : s[k] = c}
    IN  IF hits = {} THEN 0 ELSE CHOOSE k \in hits : \A j \in hits : j <= k

\* PurePath.suffix of a final path component
suffix(name) ==
    LET i == rfind(name, ".")
    IN  IF 1 < i /\ i < Len(name) THEN SubSeq(name, i, Len(name)) ELSE <<>>

(***************************************************************************)
(* Settings (app/core/config.py), with their defaults.                     *)
(***************************************************************************)
max_upload_mb == 5

allowed_file_types ==
    { <<"c","s","v">>, <<"x","l","s","x">>, <<"p","d","f">>, <<"j","p","g">>,
      <<"j","p","e","g">>, <<"p","n","g">>, <<"h","e","i","c">> }

org_id == 1

(***************************************************************************)
(* datetime.date / datetime.time and their ISO-8601 strings.  An ISO date  *)
(* string YYYY-MM-DD is the tuple <<y, m, d>> of its fields; an ISO time   *)
(* string is <<hh, mm>> ("HH:MM") or <<hh, mm, ss>> ("HH:MM:SS").          *)
(***************************************************************************)
parse_date(str) == [year |-> str[1], month |-> str[2], day |-> str[3]]

parse_time(str) ==
    [hour |-> str[1], minute |-> str[2],
     second |-> IF Len(str) >= 3 THEN str[3] ELSE 0]

date_isoformat(d) == <<d.year, d.month, d.day>>

time_isoformat_seconds(t) == <<t.hour, t.minute, t.second>>

\* time.isoformat(timespec="minutes")
time_isoformat_minutes(t) == <<t.hour, t.minute>>

(***************************************************************************)
(* Request bodies of POST /uploads/{upload_id}/confirm (ConfirmPayload).   *)
(***************************************************************************)
NameA == <<"A">>
NameB == <<"B">>

\* EmployeeInput.name: any string, padded or blank ones included
EmpNames == {<<" ", "A", " ">>, NameB, <<" ">>}

\* ShiftInput.employee_name: any string, the empty one included
ShiftNames == {NameA, <<"B", " ">>, <<>>}

DateStrs == {<<2025, 1, 6>>}

\* <<start_time, end_time>> as sent: "HH:MM" and "HH:MM:SS" strings
TimeStrs ==
    { <<<<9, 0>>, <<17, 0>>>>, <<<<9, 0, 0>>, <<17, 0>>>>,
      <<<<9, 0, 30>>, <<17, 30, 15>>>> }

\* what pydantic makes of the JSON body of a shift: date and times parsed
ShiftInput(name, d, s, e) ==
    [employee_name |-> name, date |-> parse_date(d),
     start_time |-> parse_time(s), end_time |-> parse_time(e),
     sent |-> [date |-> d, start_time |-> s, end_time |-> e]]

ShiftInputs ==
    {ShiftInput(n, d, t[1], t[2]) : n \in ShiftNames, d \in DateStrs, t \in TimeStrs}

EmployeeInputs == {[name |-> n] : n \in EmpNames}

Payloads ==
    [employees : SeqsUpTo(EmployeeInputs, MaxEmps),
     shifts : SeqsUpTo(ShiftInputs, MaxShifts)]

\* the upload_id of the path: the id of the first upload, and an id that no
\* upload gets
UploadIds == {1, 7}

\* the payloads of the two requests that run concurrently
RacePayloads ==
    { [employees |-> <<[name |-> NameA]>>,
       shifts |-> <<ShiftInput(NameA, <<2025, 1, 6>>, <<9, 0>>, <<17, 0>>)>>],
      [employees |-> <<[name |-> <<" ", "A", " ">>], [name |-> NameB]>>,
       shifts |-> <<>>],
      [employees |-> <<>>,
       shifts |-> <<ShiftInput(NameA, <<2025, 1, 6>>, <<9, 0, 30>>, <<17, 0>>)>>] }

(***************************************************************************)
(* The database session of a request (get_db), and the handler's locals.   *)
(***************************************************************************)
NoPending == [employees |-> {}, shifts |-> {}, uploads |-> {}, runs |-> {}]

NewSession == [open |-> TRUE, pending |-> NoPending]

NoSession == [open |-> FALSE, pending |-> NoPending]

\* AsyncSession.close(): the open transaction is rolled back
close(s) == [open |-> FALSE, pending |-> NoPending]

NoLocals ==
    [names |-> {}, found |-> {}, existing |-> {}, i |-> 1, inserted |-> 0,
     shifts_inserted |-> 0, shift_ids |-> <<>>, ext |-> <<>>, saved_path |-> None,
     preview |-> None, upload_id |-> None]

\* dict.get and dict.__setitem__ on a dict held as a set of <<key, value>>
DictGet(d, k) ==
    IF \E p \in d : p[1] = k THEN Some((CHOOSE p \in d : p[1] = k)[2]) ELSE None

DictPut(d, k, v) == {p \in d : p[1] # k} \cup {<<k, v>>}

Tables ==
    [employees |-> employees, shifts |-> shifts, uploads |-> uploads,
     runs |-> runs, files |-> files]

Active(r) == pc[r] \notin {"idle", "ended"}

Response(code, cause, body) == Some([code |-> code, cause |-> cause, body |-> body])

NoBody == [detail |-> <<>>]

NoCall == [fn |-> "none", arg |-> <<>>, result |-> <<>>]

NoTally == [ended |-> 0, created |-> 0]

(***************************************************************************)
(* A request arrives: FastAPI resolves Depends(get_db), which opens a new  *)
(* session, and enters the handler.                                        *)
(***************************************************************************)
Arrive(r, k, inp) ==
    /\ pc[r] = "idle"
    /\ pc' = [pc EXCEPT ![r] = IF k = "confirm" THEN "lookup"
                               ELSE IF k = "upload" THEN "validate" ELSE "select"]
    /\ kind' = [kind EXCEPT ![r] = k]
    /\ input' = [input EXCEPT ![r] = inp]
    /\ sess' = [sess EXCEPT ![r] = NewSession]
    /\ overlap' = [q \in Reqs |->
                     IF q = r THEN \E o \in Reqs \ {r} : Active(o)
                     ELSE overlap[q] \/ Active(q)]
    /\ snap' = [snap EXCEPT ![r] = Tables]
    /\ UNCHANGED <<db, seq, files, ocr, aside, local, resp>>

\* the handler raised: the request fails with 500 and nothing is returned
Raise(r, cause) ==
    /\ pc' = [pc EXCEPT ![r] = "failed"]
    /\ resp' = [resp EXCEPT ![r] = Response(500, cause, NoBody)]

(***************************************************************************)
(* confirm_extraction                                                      *)
(***************************************************************************)
\* variant: the names are looked up as sent, untrimmed
payload_names_raw(payload) ==
    {payload.employees[k].name : k \in
        {j \in 1..Len(payload.employees) : strip(payload.employees[j].name) # <<>>}}

payload_names(payload) ==
    {strip(payload.employees[k].name) : k \in
        {j \in 1..Len(payload.employees) : strip(payload.employees[j].name) # <<>>}}

\* the rows select(Employee).where(org_id == 1, name.in_(names)) returns
select_employees(names) ==
    {e \in employees : e.org_id = org_id /\ e.name \in names}

\* the dicts the loop "existing[emp.name] = emp.id" can build from the rows,
\* which come in no stated order: one id per name found
existing_dicts(rows) ==
    {d \in SUBSET {<<e.name, e.id>> : e \in rows} :
        \A e \in rows : Cardinality({p \in d : p[1] = e.name}) = 1}

ConfirmLookup(r) ==
    /\ pc[r] = "lookup"
    /\ LET names == payload_names(input[r])
       IN  \E d \in existing_dicts(select_employees(names)) :
             local' = [local EXCEPT ![r].names = names, ![r].existing = d,
                                    ![r].found = {p[1] : p \in d}]
    /\ pc' = [pc EXCEPT ![r] = "emps"]
    /\ UNCHANGED <<db, seq, files, ocr, aside, kind, input, sess, resp, history>>

\* variant: the dict is asked for the name as sent, not for the trimmed name
emp_needs_insert_raw(e, existing) ==
    strip(e.name) # <<>> /\ DictGet(existing, e.name) = None

emp_needs_insert(e, existing) ==
    strip(e.name) # <<>> /\ DictGet(existing, strip(e.name)) = None

\* variant: the statement is committed on its own (autocommit)
insert_employee_autocommit(r, row) ==
    /\ employees' = employees \cup {row}
    /\ UNCHANGED sess

\* insert(Employee).values(...) inside the session's transaction
insert_employee(r, row) ==
    /\ sess' = [sess EXCEPT ![r].pending.employees = @ \cup {row}]
    /\ UNCHANGED employees

ConfirmEmployee(r) ==
    /\ pc[r] = "emps"
    /\ local[r].i <= Len(input[r].employees)
    /\ LET e == input[r].employees[local[r].i]
           id == seq.employees
       IN  IF emp_needs_insert(e, local[r].existing)
           THEN IF org_id \in orgs
                THEN /\ insert_employee(r, [id |-> id, org_id |-> org_id,
                                            name |-> strip(e.name)])
                     /\ seq' = [seq EXCEPT !.employees = @ + 1]
                     /\ local' = [local EXCEPT
                            ![r].existing = DictPut(@, strip(e.name), id),
                            ![r].inserted = @ + 1,
                            ![r].i = @ + 1]
                     /\ UNCHANGED <<pc, resp>>
                ELSE /\ Raise(r, "integrity")
                     /\ UNCHANGED <<employees, seq, local, sess>>
           ELSE /\ local' = [local EXCEPT ![r].i = @ + 1]
                /\ UNCHANGED <<employees, seq, sess, pc, resp>>
    /\ UNCHANGED <<orgs, shifts, uploads, runs, files, ocr, aside, kind, input, history>>

ConfirmEmployeesDone(r) ==
    /\ pc[r] = "emps"
    /\ local[r].i > Len(input[r].employees)
    /\ pc' = [pc EXCEPT ![r] = "shifts"]
    /\ local' = [local EXCEPT ![r].i = 1]
    /\ UNCHANGED <<db, seq, files, ocr, aside, kind, input, sess, resp, history>>

\* variant: the dict is asked for the name as sent
shift_emp_id_raw(s, existing) ==
    IF s.employee_name # <<>> THEN DictGet(existing, s.employee_name) ELSE None

\* existing.get(s.employee_name.strip()) if s.employee_name else None
shift_emp_id(s, existing) ==
    IF s.employee_name # <<>> THEN DictGet(existing, strip(s.employee_name))
    ELSE None

shift_row(id, s, emp_id) ==
    [id |-> id, org_id |-> org_id, employee_id |-> emp_id, date |-> s.date,
     start_time |-> s.start_time, end_time |-> s.end_time]

\* the foreign key shifts.employee_id, checked when the row is inserted: the
\* employee is committed or was inserted by this transaction
employee_visible(r, emp_id) ==
    \/ emp_id = None
    \/ \E e \in employees \cup sess[r].pending.employees : e.id = emp_id[1]

ConfirmShift(r) ==
    /\ pc[r] = "shifts"
    /\ local[r].i <= Len(input[r].shifts)
    /\ LET s == input[r].shifts[local[r].i]
           emp_id == shift_emp_id(s, local[r].existing)
       IN  IF org_id \in orgs /\ employee_visible(r, emp_id)
           THEN /\ sess' = [sess EXCEPT ![r].pending.shifts =
                               @ \cup {shift_row(seq.shifts, s, emp_id)}]
                /\ seq' = [seq EXCEPT !.shifts = @ + 1]
                /\ local' = [local EXCEPT ![r].shifts_inserted = @ + 1,
                                          ![r].shift_ids = Append(@, seq.shifts),
                                          ![r].i = @ + 1]
                /\ UNCHANGED <<pc, resp>>
           ELSE /\ Raise(r, "integrity")
                /\ UNCHANGED <<seq, local, sess>>
    /\ UNCHANGED <<db, files, ocr, aside, kind, input, history>>

ConfirmShiftsDone(r) ==
    /\ pc[r] = "shifts"
    /\ local[r].i > Len(input[r].shifts)
    /\ pc' = [pc EXCEPT ![r] = "commit"]
    /\ UNCHANGED <<db, seq, files, ocr, aside, kind, input, local, sess, resp, history>>

\* variant: a unique constraint on (org_id, name) that skips the second row
commit_unique_names(r) ==
    /\ employees' = employees \cup
          {e \in sess[r].pending.employees :
              ~ \E o \in employees : o.org_id = e.org_id /\ o.name = e.name}
    /\ shifts' = shifts \cup sess[r].pending.shifts
    /\ uploads' = uploads \cup sess[r].pending.uploads
    /\ runs' = runs \cup sess[r].pending.runs
    /\ sess' = [sess EXCEPT ![r].pending = NoPending]
    /\ UNCHANGED orgs

\* variant: the commit of a confirm request marks its upload as confirmed
commit_marks_confirmed(r) ==
    /\ employees' = employees \cup sess[r].pending.employees
    /\ shifts' = shifts \cup sess[r].pending.shifts
    /\ uploads' = {IF kind[r] = "confirm" /\ u.id = input[r].upload_id
                   THEN [u EXCEPT !.status = "confirmed"] ELSE u : u \in uploads}
                  \cup sess[r].pending.uploads
    /\ runs' = runs \cup sess[r].pending.runs
    /\ sess' = [sess EXCEPT ![r].pending = NoPending]
    /\ UNCHANGED orgs

\* AsyncSession.commit(): the pending rows of the transaction become visible
commit(r) ==
    /\ employees' = employees \cup sess[r].pending.employees
    /\ shifts' = shifts \cup sess[r].pending.shifts
    /\ uploads' = uploads \cup sess[r].pending.uploads
    /\ runs' = runs \cup sess[r].pending.runs
    /\ sess' = [sess EXCEPT ![r].pending = NoPending]
    /\ UNCHANGED orgs

ConfirmCommit(r) ==
    /\ pc[r] = "commit"
    /\ kind[r] = "confirm"
    /\ commit(r)
    /\ pc' = [pc EXCEPT ![r] = "done"]
    /\ resp' = [resp EXCEPT ![r] =
          Response(200, "ok",
                   [status |-> "ok", upload_id |-> input[r].upload_id,
                    employees_created |-> local[r].inserted,
                    shifts_created |-> local[r].shifts_inserted])]
    /\ UNCHANGED <<seq, files, ocr, aside, kind, input, local, history>>

(***************************************************************************)
(* A database statement fails for a reason outside the handler (the        *)
(* connection drops, a value does not fit its column): the await raises.   *)
(***************************************************************************)
AtStatement(r) ==
    \/ pc[r] = "lookup" /\ payload_names(input[r]) # {}
    \/ pc[r] = "emps" /\ local[r].i <= Len(input[r].employees)
         /\ emp_needs_insert(input[r].employees[local[r].i], local[r].existing)
    \/ pc[r] = "shifts" /\ local[r].i <= Len(input[r].shifts)
    \/ pc[r] \in {"commit", "ins_upload", "ins_run", "select"}

DbError(r) ==
    /\ AtStatement(r)
    /\ Raise(r, "db_error")
    /\ UNCHANGED <<db, seq, files, ocr, aside, kind, input, local, sess, history>>

(***************************************************************************)
(* get_db: leaving "async with AsyncSessionLocal() as session" closes the  *)
(* session, however the handler ended.                                     *)
(***************************************************************************)
\* variant: leaving the session flushes and commits what is pending
session_exit_commit(r) ==
    /\ employees' = employees \cup sess[r].pending.employees
    /\ shifts' = shifts \cup sess[r].pending.shifts
    /\ uploads' = uploads \cup sess[r].pending.uploads
    /\ runs' = runs \cup sess[r].pending.runs
    /\ sess' = [sess EXCEPT ![r] = close(@)]
    /\ UNCHANGED orgs

session_exit(r) ==
    /\ sess' = [sess EXCEPT ![r] = close(@)]
    /\ UNCHANGED db

Teardown(r) ==
    /\ pc[r] \in {"done", "failed", "rejected"}
    /\ session_exit(r)
    /\ pc' = [pc EXCEPT ![r] = "ended"]
    /\ UNCHANGED <<seq, files, ocr, aside, kind, input, local, resp, history>>

(***************************************************************************)
(* Uploaded files.  The content of a file is held as what its parser reads *)
(* from it: the header and the rows of a sheet (pandas), the text lines of *)
(* a page (pdfplumber, pytesseract), or nothing a parser accepts (an empty *)
(* or corrupt file).  A cell of a sheet is held with its text (raw) and    *)
(* with what _infer_date or _infer_time reads from that text (reads).      *)
(***************************************************************************)
Date1 == [year |-> 2025, month |-> 1, day |-> 6]

\* datetime.time(h, m)
time(h, m) == [hour |-> h, minute |-> m, second |-> 0]

Cell(raw, reads) == [raw |-> raw, reads |-> reads]

\* an empty cell: pandas holds NaN, and str(NaN) is "nan"
NaN == Cell(<<"n", "a", "n">>, None)

\* a text of 501 characters
LongName == [k \in 1..501 |-> "x"]

DateCell == Cell(<<"2", "0", "2", "5", "-", "0", "1", "-", "0", "6">>, Some(Date1))
\* str(n) for n in 0..99
str_int(n) ==
    LET digit == <<"0", "1", "2", "3", "4", "5", "6", "7", "8", "9">>
    IN  IF n < 10 THEN <<digit[n + 1]>> ELSE <<digit[(n \div 10) + 1], digit[(n % 10) + 1]>>

\* a cell that holds the full hour h, written "h:00"
TimeCell(h) == Cell(str_int(h) \o <<":", "0", "0">>, Some(time(h, 0)))

\* the headers of the sheets, as written in the file
Header ==
    [ name |-> <<"N", "a", "m", "e">>,
      date |-> <<"D", "a", "t", "e">>,
      clock_in |-> <<"C", "l", "o", "c", "k", " ", "I", "n">>,
      clock_out |-> <<"C", "l", "o", "c", "k", " ", "O", "u", "t">>,
      time_in |-> <<"T", "i", "m", "e", " ", "I", "n">>,
      time_out |-> <<"T", "i", "m", "e", " ", "O", "u", "t">>,
      lunch_start |-> <<"L", "u", "n", "c", "h", " ", "S", "t", "a", "r", "t">>,
      lunch_end |-> <<"L", "u", "n", "c", "h", " ", "E", "n", "d">> ]

\* the cells a column of that header holds in the model, the usual one first
CellsOf(header) ==
    IF header = Header.name
    THEN <<Cell(NameA, None), Cell(<<" ">>, None), Cell(LongName, None), NaN>>
    ELSE IF header = Header.date THEN <<DateCell, NaN>>
    ELSE IF header \in {Header.clock_in, Header.time_in} THEN <<TimeCell(9), TimeCell(0), NaN>>
    ELSE IF header \in {Header.clock_out, Header.time_out} THEN <<TimeCell(17), NaN>>
    ELSE IF header = Header.lunch_start THEN <<TimeCell(12), NaN>>
    ELSE <<TimeCell(13), NaN>>

Layouts ==
    { <<Header.name, Header.date, Header.clock_in, Header.clock_out>>,
      <<Header.name, Header.date, Header.time_in, Header.time_out>>,
      <<Header.date, Header.clock_in, Header.lunch_start, Header.lunch_end, Header.clock_out>>,
      <<Header.date, Header.clock_in, Header.clock_out, Header.lunch_start, Header.lunch_end>> }

\* the rows of a sheet: the usual cell in every column but at most one
RowsOf(columns) ==
    LET usual == [k \in 1..Len(columns) |-> CellsOf(columns[k])[1]]
    IN  UNION {{[usual EXCEPT ![k] = CellsOf(columns[k])[i]] :
                   i \in 1..Len(CellsOf(columns[k]))} : k \in 1..Len(columns)}

Sheet(columns, rows) == [kind |-> "table", columns |-> columns, rows |-> rows, lines |-> <<>>]

Sheets ==
    UNION {{Sheet(cs, rs) : rs \in SeqsUpTo(RowsOf(cs), MaxSheetRows)} : cs \in Layouts}

\* rows of a sheet with Name, Date, Clock In and Clock Out columns
RowSamples ==
    { <<Cell(NameA, None), DateCell, TimeCell(9), TimeCell(17)>>,
      <<Cell(NameA, None), DateCell, TimeCell(9), NaN>>,
      <<Cell(<<" ">>, None), NaN, NaN, NaN>> }

\* text lines: whether the line holds one of ":", "am", "pm", "-" (time_tok),
\* whether _infer_datetime reads a datetime from it (parses), whether it has
\* a letter and at most three words (name_like)
LineSamples ==
    { [raw |-> <<"9", ":", "0", "0", " ", "-", " ", "1", "7", ":", "0", "0">>, time_tok |-> TRUE, parses |-> TRUE, name_like |-> FALSE],
      [raw |-> <<"n", "/", "a", " ", "-", " ", "n", "/", "a">>, time_tok |-> TRUE, parses |-> FALSE, name_like |-> TRUE],
      [raw |-> <<"A", "l", "i", "c", "e">>, time_tok |-> FALSE, parses |-> FALSE, name_like |-> TRUE],
      [raw |-> <<"1", "2", "3", "4", "5">>, time_tok |-> FALSE, parses |-> FALSE, name_like |-> FALSE],
      [raw |-> LongName, time_tok |-> FALSE, parses |-> FALSE, name_like |-> TRUE] }

Garbage == [kind |-> "garbage", columns |-> <<>>, rows |-> <<>>, lines |-> <<>>]

Page(lines) == [kind |-> "text", columns |-> <<>>, rows |-> <<>>, lines |-> lines]

Contents ==
    {Garbage}
    \cup {Sheet(<<Header.name, Header.date, Header.clock_in, Header.clock_out>>, rs) :
             rs \in SeqsUpTo(RowSamples, MaxRows)}
    \cup {Page(ls) : ls \in SeqsUpTo(LineSamples, MaxRows)}

FileNames ==
    { <<"a", ".", "c", "s", "v">>, <<"a", ".", "C", "S", "V">>,
      <<"a", ".", "x", "l", "s", "x">>, <<"a", ".", "p", "d", "f">>,
      <<"a", ".", "p", "n", "g">>, <<"a", ".", "e", "x", "e">>,
      <<"a">>, <<".", "c", "s", "v">> }

max_upload_bytes == max_upload_mb * 1024 * 1024

Sizes == {max_upload_bytes - 1, max_upload_bytes, max_upload_bytes + 1}

TabularSuffixes ==
    { <<".", "c", "s", "v">>, <<".", "t", "s", "v">>,
      <<".", "x", "l", "s", "x">>, <<".", "x", "l", "s">> }

\* a file holds what a file of its name holds, or garbage
Fits(name, content) ==
    \/ content.kind = "garbage"
    \/ content.kind = "table" /\ lower(suffix(name)) \in TabularSuffixes
    \/ content.kind = "text" /\ lower(suffix(name)) \notin TabularSuffixes

Files ==
    {f \in [filename : FileNames, size : Sizes, content : Contents] :
        Fits(f.filename, f.content)}

\* the files of the two requests that run concurrently
RaceFiles ==
    { [filename |-> <<"a", ".", "c", "s", "v">>, size |-> max_upload_bytes,
       content |-> Sheet(<<Header.name, Header.date, Header.clock_in, Header.clock_out>>,
                         << <<Cell(NameA, None), DateCell, TimeCell(9), NaN>> >>)],
      [filename |-> <<"a", ".", "p", "n", "g">>, size |-> max_upload_bytes - 1,
       content |-> Garbage],
      [filename |-> <<"a", ".", "e", "x", "e">>, size |-> max_upload_bytes + 1,
       content |-> Garbage] }

(***************************************************************************)
(* The extraction engine.                                                  *)
(***************************************************************************)
RECURSIVE Ascending(_)
Ascending(S) ==
    IF S = {} THEN <<>>
    ELSE LET m == CHOOSE x \in S : \A y \in S : x <= y
         IN  <<m>> \o Ascending(S \ {m})

Employee == <<"E", "m", "p", "l", "o", "y", "e", "e">>

Preview(ft, emps, shs, flags) ==
    [file_type |-> ft, employees |-> emps, shifts |-> shs,
     needs_review_fields |-> flags]

\* s[:n]
prefix(s, n) == SubSeq(s, 1, IF Len(s) < n THEN Len(s) ELSE n)

\* t in s, for strings
contains(s, t) == \E i \in 0..(Len(s) - Len(t)) : SubSeq(s, i + 1, i + Len(t)) = t

RECURSIVE join(_, _)
join(sep, texts) ==
    IF texts = <<>> THEN <<>>
    ELSE IF Len(texts) = 1 THEN texts[1]
    ELSE texts[1] \o sep \o join(sep, Tail(texts))

RECURSIVE flatten(_)
flatten(seqs) == IF seqs = <<>> THEN <<>> ELSE Head(seqs) \o flatten(Tail(seqs))

\* "xlsx" if path.endswith("x") else "csv"
tabular_file_type(sfx) ==
    IF sfx # <<>> /\ sfx[Len(sfx)] = "x" THEN "xlsx" ELSE "csv"

\* variant: a time of 00:00 counts as missing
missing_core_midnight(shs) ==
    LET midnight == Some([hour |-> 0, minute |-> 0, second |-> 0])
        bad == {i \in 1..Len(shs) :
                  \/ shs[i].employee_name = None
                  \/ shs[i].date = None
                  \/ shs[i].start_time \in {None, midnight}
                  \/ shs[i].end_time \in {None, midnight}}
    IN  [k \in 1..Cardinality(bad) |->
            <<"shift", Ascending(bad)[k] - 1, "missing core fields">>]

\* the flags for shifts that miss a core field
missing_core(shs) ==
    LET bad == {i \in 1..Len(shs) :
                  ~ (/\ shs[i].employee_name # None /\ shs[i].employee_name # Some(<<>>)
                     /\ shs[i].date # None
                     /\ shs[i].start_time # None
                     /\ shs[i].end_time # None)}
    IN  [k \in 1..Cardinality(bad) |->
            <<"shift", Ascending(bad)[k] - 1, "missing core fields">>]

\* df.columns = [str(c).strip().lower() for c in df.columns]
normalized(columns) == [k \in 1..Len(columns) |-> lower(strip(columns[k]))]

\* next((c for c in df.columns if ...), None): the position of the first
\* column among those given, 0 for None
first_col(found) == IF found = {} THEN 0 ELSE CHOOSE k \in found : \A j \in found : k <= j

\* the positions of the columns with one of the terms in their header
cols_with(cols, terms) == {k \in 1..Len(cols) : \E t \in terms : contains(cols[k], t)}

\* the positions of the columns whose header is one of the names
cols_named(cols, names) == {k \in 1..Len(cols) : cols[k] \in names}

name_col(cols) ==
    first_col(cols_named(cols, {<<"n", "a", "m", "e">>, <<"e", "m", "p", "l", "o", "y", "e", "e">>, <<"e", "m", "p", "l", "o", "y", "e", "e", " ", "n", "a", "m", "e">>}))

date_col(cols) == first_col(cols_named(cols, {<<"d", "a", "t", "e">>, <<"d", "a", "y">>}))

in_col(cols) ==
    first_col(cols_with(cols, {<<"i", "n">>, <<"s", "t", "a", "r", "t">>, <<"c", "l", "o", "c", "k", " ", "i", "n">>, <<"l", "o", "g", " ", "i", "n">>, <<"t", "i", "m", "e", " ", "i", "n">>}))

out_col(cols) ==
    first_col(cols_with(cols, {<<"o", "u", "t">>, <<"e", "n", "d">>, <<"c", "l", "o", "c", "k", " ", "o", "u", "t">>, <<"l", "o", "g", " ", "o", "u", "t">>, <<"t", "i", "m", "e", " ", "o", "u", "t">>}))

lunch_start_col(cols) ==
    first_col(cols_with(cols, {<<"l", "u", "n", "c", "h", " ", "s", "t", "a", "r", "t">>, <<"b", "r", "e", "a", "k", " ", "s", "t", "a", "r", "t">>, <<"l", "u", "n", "c", "h", " ", "b", "e", "g", "i", "n", "s">>}))

lunch_end_col(cols) ==
    first_col(cols_with(cols, {<<"l", "u", "n", "c", "h", " ", "e", "n", "d">>, <<"b", "r", "e", "a", "k", " ", "e", "n", "d">>, <<"l", "u", "n", "c", "h", " ", "e", "n", "d", "s">>}))

time_in_cols(cols) == Ascending(cols_with(cols, {<<"t", "i", "m", "e", " ", "i", "n">>}))

time_out_cols(cols) == Ascending(cols_with(cols, {<<"t", "i", "m", "e", " ", "o", "u", "t">>}))

seconds(t) == t.hour * 3600 + t.minute * 60 + t.second

\* int(x / 60): cut toward zero
minutes_of(secs) == IF secs >= 0 THEN secs \div 60 ELSE -((-secs) \div 60)

\* int(total_hours * 60) if total_hours else None, total_hours being
\* (lunch_start - start) / 3600 + (end - lunch_end) / 3600 in floating point.
\* The floating-point sum is exact for times on quarter hours, as the times
\* of the model are; for other times it can fall just short of the whole
\* minute, and int() then gives one minute less.
unpaid_break_min(start, lunch_start, lunch_end, end) ==
    IF start = None \/ lunch_start = None \/ lunch_end = None \/ end = None THEN None
    ELSE LET total == (seconds(lunch_start[1]) - seconds(start[1]))
                      + (seconds(end[1]) - seconds(lunch_end[1]))
         IN  IF total = 0 THEN None ELSE Some(minutes_of(total))

\* " ".join(str(v) for v in row.to_dict().values())[:500]
row_raw_text(row) == prefix(join(<<" ">>, [k \in 1..Len(row) |-> row[k].raw]), 500)

ShiftRecord(name, d, start, end, break, conf, raw_text) ==
    [employee_name |-> name, date |-> d, start_time |-> start, end_time |-> end,
     unpaid_break_min |-> break, confidence |-> conf, raw_text |-> raw_text]

EmployeeRecord(name, conf, raw_text) ==
    [name |-> name, confidence |-> conf, raw_text |-> raw_text]

\* what a row reads in a column; None when there is no such column
reads(row, col) == IF col = 0 THEN None ELSE row[col].reads

\* the shifts of a row of a sheet with "time in" and "time out" columns: one
\* for each pair of them whose times both parse
period_shifts(cols, row, name) ==
    LET ins == time_in_cols(cols)
        outs == time_out_cols(cols)
        pairs == 1..(IF Len(ins) < Len(outs) THEN Len(ins) ELSE Len(outs))
        kept == {i \in pairs : /\ reads(row, date_col(cols)) # None
                                /\ reads(row, ins[i]) # None
                                /\ reads(row, outs[i]) # None}
    IN  [k \in 1..Cardinality(kept) |->
            ShiftRecord(name, reads(row, date_col(cols)),
                        reads(row, ins[Ascending(kept)[k]]),
                        reads(row, outs[Ascending(kept)[k]]),
                        None, 7, row_raw_text(row))]

\* the shift of a row of a sheet with lunch-start and lunch-end columns
lunch_shift(cols, row, name) ==
    LET start == reads(row, in_col(cols))
        end == reads(row, out_col(cols))
        d == reads(row, date_col(cols))
    IN  IF d # None /\ (start # None \/ end # None)
        THEN << ShiftRecord(name, d, start, end,
                            unpaid_break_min(start, reads(row, lunch_start_col(cols)),
                                             reads(row, lunch_end_col(cols)), end),
                            7, row_raw_text(row)) >>
        ELSE <<>>

\* the shift of a row of any other sheet
standard_shift(cols, row, name) ==
    LET start == reads(row, in_col(cols))
        end == reads(row, out_col(cols))
        d == reads(row, date_col(cols))
    IN  IF d # None /\ (start # None \/ end # None)
        THEN << ShiftRecord(name, d, start, end, None, 7, row_raw_text(row)) >>
        ELSE <<>>

row_shifts(cols, row, name) ==
    IF date_col(cols) = 0
       \/ (/\ in_col(cols) = 0 /\ out_col(cols) = 0
           /\ lunch_start_col(cols) = 0 /\ lunch_end_col(cols) = 0
           /\ time_in_cols(cols) = <<>> /\ time_out_cols(cols) = <<>>)
    THEN <<>>
    ELSE IF time_in_cols(cols) # <<>> /\ time_out_cols(cols) # <<>>
    THEN period_shifts(cols, row, name)
    ELSE IF lunch_start_col(cols) # 0 /\ lunch_end_col(cols) # 0
    THEN lunch_shift(cols, row, name)
    ELSE standard_shift(cols, row, name)

\* df[col].nunique(): the distinct values of a column, NaN not counted
nunique(rows, col) ==
    Cardinality({rows[k][col].raw : k \in {j \in 1..Len(rows) : rows[j][col] # NaN}})

extract_from_csv_xlsx(sfx, sheet) ==
    LET cols == normalized(sheet.columns)
        rows == sheet.rows
        n == Len(rows)
        is_per_person_sheet ==
            n > 0 /\ (name_col(cols) = 0 \/ nunique(rows, name_col(cols)) <= 1)
        name(k) ==
            LET text == IF name_col(cols) = 0 THEN <<>>
                        ELSE strip(rows[k][name_col(cols)].raw)
            IN  IF text = <<>> /\ is_per_person_sheet THEN Employee ELSE text
        first == {k \in 1..n : name(k) # <<>> /\ \A j \in 1..(k - 1) : name(j) # name(k)}
        emps == [k \in 1..Cardinality(first) |->
                    EmployeeRecord(name(Ascending(first)[k]), 9, name(Ascending(first)[k]))]
        shs == flatten([k \in 1..n |->
                           row_shifts(cols, rows[k],
                                      IF name(k) = <<>> THEN None ELSE Some(name(k)))])
    IN  Preview(tabular_file_type(sfx), emps, shs, missing_core(shs))

\* extract_from_pdf on the lines of a one-page document
extract_from_pdf(lines) ==
    LET timed == {k \in 1..Len(lines) : lines[k].time_tok /\ lines[k].parses}
        named == {k \in 1..Len(lines) : ~lines[k].time_tok /\ lines[k].name_like}
    IN  Preview("pdf",
                [k \in 1..Cardinality(named) |->
                    EmployeeRecord(lines[Ascending(named)[k]].raw, 2,
                                   lines[Ascending(named)[k]].raw)],
                [k \in 1..Cardinality(timed) |->
                    ShiftRecord(None, None, None, None, None, 3,
                                lines[Ascending(timed)[k]].raw)],
                [k \in 1..Cardinality(timed) |->
                    <<"pdf_line page", 1, prefix(lines[Ascending(timed)[k]].raw, 40)>>])

\* the image branch of extract_preview when OCR ran
extract_from_image(lines) ==
    LET timed == {k \in 1..Len(lines) : lines[k].time_tok}
        named == {k \in 1..Len(lines) : ~lines[k].time_tok /\ lines[k].name_like}
        flags == [k \in 1..Cardinality(timed) |->
                    <<"image_line_time", prefix(lines[Ascending(timed)[k]].raw, 40)>>]
    IN  Preview("image",
                [k \in 1..Cardinality(named) |->
                    EmployeeRecord(lines[Ascending(named)[k]].raw, 2,
                                   lines[Ascending(named)[k]].raw)],
                <<>>,
                IF named = {} THEN Append(flags, <<"image_ocr_low_signal">>) ELSE flags)

\* variant: the fallback preview carries the flag of an unreadable image
OcrNotAvailable_low_signal == Preview("image", <<>>, <<>>, << <<"image_ocr_low_signal">> >>)

OcrNotAvailable == Preview("image", <<>>, <<>>, << <<"image_ocr_not_available">> >>)

\* the parser raises (pandas.read_csv / read_excel, pdfplumber.open) and
\* nothing in extract_preview or in the route catches it
extraction_raises(sfx, content) ==
    /\ sfx \in TabularSuffixes \cup {<<".", "p", "d", "f">>}
    /\ content.kind = "garbage"

extract_preview(sfx, content, ocr_ok) ==
    IF sfx \in TabularSuffixes THEN extract_from_csv_xlsx(sfx, content)
    ELSE IF sfx = <<".", "p", "d", "f">> THEN extract_from_pdf(content.lines)
    ELSE IF ocr_ok /\ content.kind # "garbage" THEN extract_from_image(content.lines)
    ELSE OcrNotAvailable

\* ExtractionPreview.model_dump(): the field serializers of ShiftRecord turn
\* dates and times into ISO strings
model_dump(preview) ==
    LET ser_date(v) == IF v = None THEN None ELSE Some(date_isoformat(v[1]))
        ser_time(v) == IF v = None THEN None ELSE Some(time_isoformat_seconds(v[1]))
    IN  [preview EXCEPT !.shifts =
            [k \in 1..Len(preview.shifts) |->
                [preview.shifts[k] EXCEPT
                    !.date = ser_date(@),
                    !.start_time = ser_time(@),
                    !.end_time = ser_time(@)]]]

(***************************************************************************)
(* upload_timesheet                                                        *)
(***************************************************************************)
\* Path(file.filename or "").suffix.lower().lstrip(".")
upload_ext(filename) == lstrip(lower(suffix(filename)), ".")

ext_rejected(ext) == ext = <<>> \/ ext \notin allowed_file_types

\* variant: a file of exactly the limit is refused
size_rejected_at_limit(size) == size >= max_upload_mb * 1024 * 1024

size_rejected(size) == size > max_upload_mb * 1024 * 1024

\* variant: the size is checked first
upload_check_size_first(ext, size) ==
    IF size_rejected(size) THEN 413 ELSE IF ext_rejected(ext) THEN 400 ELSE 200

\* the two checks of the route, in its order: the status of the HTTPException
\* raised, or 200 when the file passes
upload_check(ext, size) ==
    IF ext_rejected(ext) THEN 400 ELSE IF size_rejected(size) THEN 413 ELSE 200

\* save_upload_locally: a fresh name with the lower-cased suffix
saved_path(n, filename) == [uuid |-> n, suffix |-> lower(suffix(filename))]

\* variant: the file is saved before the extension and the size are checked
UploadValidate_save_first(r) ==
    /\ pc[r] = "validate"
    /\ LET f == input[r]
           ext == upload_ext(f.filename)
           path == saved_path(seq.files, f.filename)
       IN  /\ files' = files \cup {[path |-> path, content |-> f.content]}
           /\ seq' = [seq EXCEPT !.files = @ + 1]
           /\ local' = [local EXCEPT
                 ![r].ext = ext,
                 ![r].saved_path = Some(path),
                 ![r].preview =
                     IF upload_check(ext, f.size) = 200
                        /\ ~extraction_raises(path.suffix, f.content)
                     THEN Some(extract_preview(path.suffix, f.content, ocr))
                     ELSE None]
           /\ IF upload_check(ext, f.size) = 400
              THEN /\ pc' = [pc EXCEPT ![r] = "rejected"]
                   /\ resp' = [resp EXCEPT ![r] = Response(400, "http",
                                  [detail |-> <<"Unsupported file type", ext>>])]
              ELSE IF upload_check(ext, f.size) = 413
              THEN /\ pc' = [pc EXCEPT ![r] = "rejected"]
                   /\ resp' = [resp EXCEPT ![r] = Response(413, "http",
                                  [detail |-> <<"File exceeds MB limit", max_upload_mb>>])]
              ELSE IF extraction_raises(path.suffix, f.content)
              THEN Raise(r, "extraction")
              ELSE /\ pc' = [pc EXCEPT ![r] = "ins_upload"]
                   /\ UNCHANGED resp
    /\ UNCHANGED <<db, ocr, aside, kind, input, sess, history>>

UploadValidate(r) ==
    /\ pc[r] = "validate"
    /\ LET f == input[r]
           ext == upload_ext(f.filename)
           path == saved_path(seq.files, f.filename)
       IN  IF upload_check(ext, f.size) = 400
           THEN /\ pc' = [pc EXCEPT ![r] = "rejected"]
                /\ resp' = [resp EXCEPT ![r] = Response(400, "http",
                               [detail |-> <<"Unsupported file type", ext>>])]
                /\ UNCHANGED <<files, seq, local>>
           ELSE IF upload_check(ext, f.size) = 413
           THEN /\ pc' = [pc EXCEPT ![r] = "rejected"]
                /\ resp' = [resp EXCEPT ![r] = Response(413, "http",
                               [detail |-> <<"File exceeds MB limit", max_upload_mb>>])]
                /\ UNCHANGED <<files, seq, local>>
           ELSE /\ files' = files \cup {[path |-> path, content |-> f.content]}
                /\ seq' = [seq EXCEPT !.files = @ + 1]
                /\ IF extraction_raises(path.suffix, f.content)
                   THEN /\ Raise(r, "extraction")
                        /\ local' = [local EXCEPT ![r].ext = ext,
                                                  ![r].saved_path = Some(path)]
                   ELSE /\ pc' = [pc EXCEPT ![r] = "ins_upload"]
                        /\ local' = [local EXCEPT
                              ![r].ext = ext,
                              ![r].saved_path = Some(path),
                              ![r].preview =
                                  Some(extract_preview(path.suffix, f.content, ocr))]
                        /\ UNCHANGED resp
    /\ UNCHANGED <<db, ocr, aside, kind, input, sess, history>>

UploadInsert(r) ==
    /\ pc[r] = "ins_upload"
    /\ IF org_id \in orgs
       THEN /\ sess' = [sess EXCEPT ![r].pending.uploads = @ \cup
                          {[id |-> seq.uploads, org_id |-> org_id,
                            file_url |-> local[r].saved_path[1],
                            file_type |-> local[r].ext, status |-> "uploaded"]}]
            /\ seq' = [seq EXCEPT !.uploads = @ + 1]
            /\ local' = [local EXCEPT ![r].upload_id = Some(seq.uploads)]
            /\ pc' = [pc EXCEPT ![r] = "ins_run"]
            /\ UNCHANGED resp
       ELSE /\ Raise(r, "integrity")
            /\ UNCHANGED <<seq, local, sess>>
    /\ UNCHANGED <<db, files, ocr, aside, kind, input, history>>

confidence_summary(preview) ==
    [employees |-> Len(preview.employees), shifts |-> Len(preview.shifts)]

\* variant: the column default (True) instead of the computed flag
needs_review_default(preview) == TRUE

\* bool(preview.needs_review_fields)
needs_review(preview) == preview.needs_review_fields # <<>>

\* variant: the run is stored for the first upload of the table
run_row_first_upload(id, upload_id, preview) ==
    [id |-> id, upload_id |-> 1, result_json |-> model_dump(preview),
     confidence_summary |-> confidence_summary(preview),
     needs_review |-> needs_review(preview)]

run_row(id, upload_id, preview) ==
    [id |-> id, upload_id |-> upload_id, result_json |-> model_dump(preview),
     confidence_summary |-> confidence_summary(preview),
     needs_review |-> needs_review(preview)]

UploadInsertRun(r) ==
    /\ pc[r] = "ins_run"
    /\ sess' = [sess EXCEPT ![r].pending.runs = @ \cup
                  {run_row(seq.runs, local[r].upload_id[1], local[r].preview[1])}]
    /\ seq' = [seq EXCEPT !.runs = @ + 1]
    /\ pc' = [pc EXCEPT ![r] = "commit"]
    /\ UNCHANGED <<db, files, ocr, aside, kind, input, local, resp, history>>

UploadCommit(r) ==
    /\ pc[r] = "commit"
    /\ kind[r] = "upload"
    /\ commit(r)
    /\ pc' = [pc EXCEPT ![r] = "done"]
    /\ resp' = [resp EXCEPT ![r] =
          Response(200, "ok", [upload_id |-> local[r].upload_id[1],
                               preview |-> model_dump(local[r].preview[1])])]
    /\ UNCHANGED <<seq, files, ocr, aside, kind, input, local, history>>

(***************************************************************************)
(* GET /employees and GET /shifts                                          *)
(***************************************************************************)
list_employees == {[id |-> e.id, name |-> e.name] : e \in {x \in employees : x.org_id = 1}}

\* variant: isoformat() without timespec="minutes"
shift_item_seconds(s) ==
    [id |-> s.id, date |-> date_isoformat(s.date),
     start_time |-> time_isoformat_seconds(s.start_time),
     end_time |-> time_isoformat_seconds(s.end_time),
     employee_id |-> s.employee_id]

shift_item(s) ==
    [id |-> s.id, date |-> date_isoformat(s.date),
     start_time |-> time_isoformat_minutes(s.start_time),
     end_time |-> time_isoformat_minutes(s.end_time),
     employee_id |-> s.employee_id]

list_shifts == {shift_item(s) : s \in {x \in shifts : x.org_id = 1}}

\* the handlers of the two routes: one select, no write, no commit
ListEmployees(r) ==
    /\ pc[r] = "select"
    /\ kind[r] = "list_employees"
    /\ pc' = [pc EXCEPT ![r] = "done"]
    /\ resp' = [resp EXCEPT ![r] = Response(200, "ok", [items |-> list_employees])]
    /\ UNCHANGED <<db, seq, files, ocr, aside, kind, input, local, sess, history>>

ListShifts(r) ==
    /\ pc[r] = "select"
    /\ kind[r] = "list_shifts"
    /\ pc' = [pc EXCEPT ![r] = "done"]
    /\ resp' = [resp EXCEPT ![r] = Response(200, "ok", [items |-> list_shifts])]
    /\ UNCHANGED <<db, seq, files, ocr, aside, kind, input, local, sess, history>>

(***************************************************************************)
(* _infer_time on a run of digits.  The run is the tuple of its digits.    *)
(***************************************************************************)
Digits == 0..9

\* the strings of three or of four digits
DigitRuns == [1..3 -> Digits] \cup [1..4 -> Digits]

RECURSIVE to_int(_)
to_int(ds) == IF ds = <<>> THEN 0 ELSE 10 * to_int(SubSeq(ds, 1, Len(ds) - 1)) + ds[Len(ds)]

\* the checks of lines 131-142: HHMM with HH <= 23 and MM <= 59, or HMM with
\* MM <= 59, as a time; None when the run is neither
digits_as_time(ds) ==
    IF Len(ds) = 4 /\ to_int(SubSeq(ds, 1, 2)) <= 23 /\ to_int(SubSeq(ds, 3, 4)) <= 59
    THEN Some(time(to_int(SubSeq(ds, 1, 2)), to_int(SubSeq(ds, 3, 4))))
    ELSE IF Len(ds) = 3 /\ ds[1] <= 9 /\ to_int(SubSeq(ds, 2, 3)) <= 59
    THEN Some(time(ds[1], to_int(SubSeq(ds, 2, 3))))
    ELSE None

\* _infer_datetime on a run of three or four digits: dateutil's parse reads a
\* lone number above 31 as a year and a number from 1 to 31 as a day of the
\* current month, and fills the rest from today at midnight; 0 makes it
\* raise, which is caught, and no pattern of the manual parsing matches a
\* run of digits.  The result is held by its time of day (the date depends
\* on the day the code runs).
infer_datetime(ds) ==
    IF to_int(ds) >= 1 THEN Some(time(0, 0)) ELSE None

\* datetime.strptime(s, "%H%M"): %H is 2[0-3]|[0-1]\d|\d, %M is [0-5]\d|\d,
\* and what they match has to be all of s
strptime_HM(ds) ==
    LET h2 == Len(ds) >= 2 /\ to_int(SubSeq(ds, 1, 2)) <= 23
        rest == IF h2 THEN SubSeq(ds, 3, Len(ds)) ELSE Tail(ds)
        m2 == Len(rest) >= 2 /\ rest[1] <= 5
        used == IF m2 THEN 2 ELSE 1
    IN  IF rest # <<>> /\ used = Len(rest)
        THEN Some(time(IF h2 THEN to_int(SubSeq(ds, 1, 2)) ELSE ds[1],
                       to_int(SubSeq(rest, 1, used))))
        ELSE None

\* the manual patterns of lines 153-199 on a run of three or four digits:
\* the run matches (\d{2})(\d{2}) or (\d{1,2})(\d{2}) as a whole, fails the
\* HHMM / HMM check again and is handed to strptime
manual_time(ds) == strptime_HM(ds)

infer_time(ds) ==
    IF digits_as_time(ds) # None THEN digits_as_time(ds)
    ELSE IF infer_datetime(ds) # None THEN infer_datetime(ds)
    ELSE manual_time(ds)

\* a function of the engine is called with an argument
Returned(fn, arg, result) == call' = [fn |-> fn, arg |-> arg, result |-> result]

CallInferTime ==
    /\ call = NoCall
    /\ \E ds \in DigitRuns : Returned("_infer_time", ds, infer_time(ds))
    /\ UNCHANGED <<db, seq, files, ocr, pc, kind, input, local, sess, resp,
                   history, mig, tally>>

\* extract_from_csv_xlsx is called on a sheet
CallExtractCsv ==
    /\ call = NoCall
    /\ \E sheet \in Sheets, sfx \in {<<".", "c", "s", "v">>, <<".", "x", "l", "s", "x">>} :
          Returned("extract_from_csv_xlsx", [suffix |-> sfx, sheet |-> sheet],
                   extract_from_csv_xlsx(sfx, sheet))
    /\ UNCHANGED <<db, seq, files, ocr, pc, kind, input, local, sess, resp,
                   history, mig, tally>>

\* extract_preview is called on a path, with the OCR backend not installed
\* (pytesseract or Image is None), raising (no tesseract binary, a file that
\* is no image) or working; a result of None stands for an exception that
\* reaches the caller
CallExtractPreview ==
    /\ call = NoCall
    /\ \E name \in FileNames, content \in Contents, backend \in {"absent", "raises", "ok"} :
          /\ Fits(name, content)
          /\ Returned("extract_preview",
                      [path |-> name, content |-> content, ocr |-> backend],
                      IF extraction_raises(lower(suffix(name)), content) THEN None
                      ELSE Some(extract_preview(lower(suffix(name)), content,
                                                backend = "ok")))
    /\ UNCHANGED <<db, seq, files, ocr, pc, kind, input, local, sess, resp,
                   history, mig, tally>>

(***************************************************************************)
(* Rows deleted in the database (no route deletes; the foreign keys of     *)
(* app/models/models.py say what a delete takes with it).  A row that an   *)
(* open transaction has inserted a child of is locked: its delete waits.   *)
(***************************************************************************)
\* variant: the shifts keep the id of the deleted employee
employee_deleted_no_action(shs, id) == shs

\* shifts.employee_id, ondelete="SET NULL"
employee_deleted_set_null(shs, id) ==
    {IF s.employee_id = Some(id) THEN [s EXCEPT !.employee_id = None] ELSE s : s \in shs}

\* ondelete="CASCADE": the rows that reference a deleted row go with it
cascade(rows, column, ids) == {x \in rows : x[column] \notin ids}

Pending(table) == UNION {sess[r].pending[table] : r \in Reqs}

DeleteEmployee ==
    \E e \in employees :
        /\ \A s \in Pending("shifts") : s.employee_id # Some(e.id)
        /\ employees' = employees \ {e}
        /\ shifts' = employee_deleted_set_null(shifts, e.id)
        /\ UNCHANGED <<orgs, uploads, runs, seq, files, ocr, aside, pc, kind, input,
                       local, sess, resp, history>>

DeleteUpload ==
    \E u \in uploads :
        /\ \A x \in Pending("runs") : x.upload_id # u.id
        /\ uploads' = uploads \ {u}
        /\ runs' = cascade(runs, "upload_id", {u.id})
        /\ UNCHANGED <<orgs, employees, shifts, seq, files, ocr, aside, pc, kind, input,
                       local, sess, resp, history>>

DeleteOrganization ==
    \E o \in orgs :
        /\ \A t \in {"employees", "shifts", "uploads"} :
              \A x \in Pending(t) : x.org_id # o
        /\ LET gone_emps == {e.id : e \in {x \in employees : x.org_id = o}}
               gone_ups == {u.id : u \in {x \in uploads : x.org_id = o}}
               kept_shifts == cascade(shifts, "org_id", {o})
           IN  /\ orgs' = orgs \ {o}
               /\ employees' = cascade(employees, "org_id", {o})
               /\ uploads' = cascade(uploads, "org_id", {o})
               /\ runs' = cascade(runs, "upload_id", gone_ups)
               /\ shifts' = {IF s.employee_id # None /\ s.employee_id[1] \in gone_emps
                             THEN [s EXCEPT !.employee_id = None] ELSE s : s \in kept_shifts}
        /\ UNCHANGED <<seq, files, ocr, aside, pc, kind, input, local, sess, resp, history>>

(***************************************************************************)
(* alembic/versions/0001_initial.py.  A schema is the set of its tables,   *)
(* each with the tables its foreign keys reference.  alembic runs a        *)
(* command in one transaction (env.py, begin_transaction): a statement     *)
(* that fails rolls the schema back to what was committed.                 *)
(***************************************************************************)
MaxCmds == 3

Table(name, refs) == [name |-> name, refs |-> refs]

\* the op.create_table calls of upgrade(), in their order
upgrade ==
    << Table("organizations", {}),
       Table("employees", {"organizations"}),
       Table("timesheet_uploads", {"organizations"}),
       Table("extraction_runs", {"timesheet_uploads"}),
       Table("shifts", {"organizations", "employees"}) >>

\* variant: the tables are dropped in the order they were created
downgrade_creation_order ==
    <<"organizations", "employees", "timesheet_uploads", "extraction_runs", "shifts">>

\* the op.drop_table calls of downgrade(), in their order
downgrade ==
    <<"shifts", "extraction_runs", "timesheet_uploads", "employees", "organizations">>

table_names(schema) == {t.name : t \in schema}

\* the schema Base.metadata.create_all makes of the models
create_all == {upgrade[k] : k \in 1..Len(upgrade)}

NoCommand == [name |-> "none", step |-> 0]

MigSettled(schema, version) ==
    [committed |-> schema, schema |-> schema, version |-> version,
     cmd |-> NoCommand, log |-> <<>>, origin |-> schema]

\* the command ends: committed when it succeeded, rolled back otherwise
MigEnd(outcome) ==
    LET ok == outcome = "ok"
    IN  mig' = [mig EXCEPT
                  !.committed = IF ok THEN mig.schema ELSE @,
                  !.schema = IF ok THEN @ ELSE mig.committed,
                  !.version = IF ~ok THEN @
                              ELSE IF mig.cmd.name = "upgrade" THEN "head" ELSE "base",
                  !.cmd = NoCommand,
                  !.log = Append(@, <<mig.cmd.name, outcome>>)]

\* "alembic upgrade head" or "alembic downgrade base" is started; it has
\* nothing to run when the database is at that revision already
MigStart(c) ==
    /\ mig.cmd = NoCommand
    /\ Len(mig.log) < MaxCmds
    /\ IF mig.version = (IF c = "upgrade" THEN "head" ELSE "base")
       THEN mig' = [mig EXCEPT !.log = Append(@, <<c, "nothing to do">>)]
       ELSE mig' = [mig EXCEPT !.cmd = [name |-> c, step |-> 1]]
    /\ UNCHANGED <<db, seq, files, ocr, pc, kind, input, local, sess, resp,
                   history, call, tally>>

\* one op.create_table of upgrade()
MigCreate ==
    /\ mig.cmd.name = "upgrade"
    /\ mig.cmd.step <= Len(upgrade)
    /\ LET t == upgrade[mig.cmd.step]
       IN  IF t.name \in table_names(mig.schema) THEN MigEnd("duplicate table")
           ELSE IF ~(t.refs \subseteq table_names(mig.schema))
                THEN MigEnd("undefined table")
           ELSE mig' = [mig EXCEPT !.schema = @ \cup {t}, !.cmd.step = @ + 1]
    /\ UNCHANGED <<db, seq, files, ocr, pc, kind, input, local, sess, resp,
                   history, call, tally>>

\* one op.drop_table of downgrade()
MigDrop ==
    /\ mig.cmd.name = "downgrade"
    /\ mig.cmd.step <= Len(downgrade)
    /\ LET n == downgrade[mig.cmd.step]
       IN  IF n \notin table_names(mig.schema) THEN MigEnd("undefined table")
           ELSE IF \E t \in mig.schema : t.name # n /\ n \in t.refs
                THEN MigEnd("dependent objects")
           ELSE mig' = [mig EXCEPT !.schema = {t \in @ : t.name # n},
                                   !.cmd.step = @ + 1]
    /\ UNCHANGED <<db, seq, files, ocr, pc, kind, input, local, sess, resp,
                   history, call, tally>>

\* the last statement has run: the transaction commits
MigCommit ==
    /\ mig.cmd.name # "none"
    /\ mig.cmd.step > (IF mig.cmd.name = "upgrade" THEN Len(upgrade) ELSE Len(downgrade))
    /\ MigEnd("ok")
    /\ UNCHANGED <<db, seq, files, ocr, pc, kind, input, local, sess, resp,
                   history, call, tally>>

\* the connection is lost while the command runs
MigDbError ==
    /\ mig.cmd.name # "none"
    /\ MigEnd("db_error")
    /\ UNCHANGED <<db, seq, files, ocr, pc, kind, input, local, sess, resp,
                   history, call, tally>>

(***************************************************************************)
(* The system: two requests, interleaved at their awaits.                  *)
(***************************************************************************)
EmptyTables ==
    /\ employees = {} /\ shifts = {} /\ uploads = {} /\ runs = {}
    /\ files = {}

\* the API runs on the tables create_all made at startup; nothing else runs
AsideIdle ==
    /\ mig = MigSettled(create_all, "base")
    /\ call = NoCall
    /\ tally = NoTally

NoRequests ==
    /\ pc = [r \in Reqs |-> "idle"]
    /\ kind = [r \in Reqs |-> "none"]
    /\ input = [r \in Reqs |-> <<>>]
    /\ local = [r \in Reqs |-> NoLocals]
    /\ sess = [r \in Reqs |-> NoSession]
    /\ resp = [r \in Reqs |-> None]
    /\ overlap = [r \in Reqs |-> FALSE]
    /\ snap = [r \in Reqs |-> Tables]

\* a freshly bootstrapped database (create_all), with or without the
\* organization row an operator has to insert by hand
Init ==
    /\ orgs \in {{}, {org_id}}
    /\ EmptyTables
    /\ seq = [employees |-> 1, shifts |-> 1, uploads |-> 1, runs |-> 1, files |-> 1]
    /\ ocr \in BOOLEAN
    /\ NoRequests
    /\ AsideIdle

Step(r) ==
    \/ ConfirmLookup(r)
    \/ ConfirmEmployee(r)
    \/ ConfirmEmployeesDone(r)
    \/ ConfirmShift(r)
    \/ ConfirmShiftsDone(r)
    \/ ConfirmCommit(r)
    \/ UploadValidate(r)
    \/ UploadInsert(r)
    \/ UploadInsertRun(r)
    \/ UploadCommit(r)
    \/ ListEmployees(r)
    \/ ListShifts(r)
    \/ DbError(r)
    \/ Teardown(r)

\* POST /uploads/{upload_id}/confirm with a ConfirmPayload as its body
ArriveConfirm(r, ids, payloads) ==
    pc[r] = "idle" /\ \E u \in ids, p \in payloads :
        Arrive(r, "confirm", [upload_id |-> u, employees |-> p.employees,
                              shifts |-> p.shifts])

\* GET /employees or GET /shifts
ArriveList(r) ==
    pc[r] = "idle" /\ \E k \in {"list_employees", "list_shifts"} : Arrive(r, k, <<>>)

ArriveUpload(r, fs) ==
    pc[r] = "idle" /\ \E f \in fs : Arrive(r, "upload", f)

Next ==
    \E r \in Reqs :
        \/ ArriveConfirm(r, UploadIds, RacePayloads)
        \/ ArriveUpload(r, RaceFiles)
        \/ ArriveList(r)
        \/ Step(r)

Spec == Init /\ [][Next]_vars

\* the API at work while rows are deleted in the database
OpsNext ==
    \/ Next
    \/ DeleteEmployee
    \/ DeleteUpload
    \/ DeleteOrganization

OpsSpec == Init /\ [][OpsNext]_vars

(***************************************************************************)
(* One request, run on its own against a database that earlier requests,   *)
(* races between them included, have filled.                               *)
(***************************************************************************)
Emp(id, org, name) == [id |-> id, org_id |-> org, name |-> name]

DBSeeds ==
    { [orgs |-> {}, employees |-> {}],
      [orgs |-> {1}, employees |-> {}],
      [orgs |-> {1}, employees |-> {Emp(1, 1, NameA)}],
      [orgs |-> {1}, employees |-> {Emp(1, 1, NameA), Emp(2, 1, NameA)}],
      [orgs |-> {1}, employees |-> {Emp(1, 1, NameA), Emp(2, 1, NameB)}],
      [orgs |-> {1, 2}, employees |-> {Emp(1, 2, NameA)}] }

SeqInit ==
    /\ \E seed \in DBSeeds :
          /\ orgs = seed.orgs
          /\ employees = seed.employees
          /\ seq = [employees |-> Cardinality(seed.employees) + 1, shifts |-> 1,
                    uploads |-> 1, runs |-> 1, files |-> 1]
    /\ shifts = {} /\ uploads = {} /\ runs = {} /\ files = {}
    /\ ocr \in BOOLEAN
    /\ NoRequests
    /\ AsideIdle

SeqNext ==
    \/ ArriveConfirm("r1", {1}, Payloads)
    \/ ArriveUpload("r1", Files)
    \/ ArriveList("r1")
    \/ Step("r1")

SeqSpec == SeqInit /\ [][SeqNext]_vars

(***************************************************************************)
(* Confirm requests served one after the other, each one ended before the  *)
(* next arrives, on a database whose tables are empty.                      *)
(***************************************************************************)
ChainPayloads ==
    [employees : SeqsUpTo(EmployeeInputs \cup {[name |-> NameA]}, MaxEmps),
     shifts : {<<>>, <<ShiftInput(NameA, <<2025, 1, 6>>, <<9, 0>>, <<17, 0>>)>>}]

\* the next confirm request arrives
ChainArrive(r) ==
    /\ tally.ended < MaxReqs
    /\ ArriveConfirm(r, {1}, ChainPayloads)

\* the steps of confirm_extraction and of the session around it
ChainStep(r) ==
    \/ ConfirmLookup(r)
    \/ ConfirmEmployee(r)
    \/ ConfirmEmployeesDone(r)
    \/ ConfirmShift(r)
    \/ ConfirmShiftsDone(r)
    \/ ConfirmCommit(r)
    \/ DbError(r)
    \/ Teardown(r)

\* the client has the response: its employees_created is added to the sum
\* of those returned so far, and the server is free for the next request
Recycle(r) ==
    /\ pc[r] = "ended"
    /\ tally' = [ended |-> tally.ended + 1,
                 created |-> tally.created
                             + (IF resp[r] # None /\ resp[r][1].code = 200
                                THEN resp[r][1].body.employees_created ELSE 0)]
    /\ pc' = [pc EXCEPT ![r] = "idle"]
    /\ kind' = [kind EXCEPT ![r] = "none"]
    /\ input' = [input EXCEPT ![r] = <<>>]
    /\ local' = [local EXCEPT ![r] = NoLocals]
    /\ resp' = [resp EXCEPT ![r] = None]
    /\ overlap' = [overlap EXCEPT ![r] = FALSE]
    /\ snap' = [snap EXCEPT ![r] = Tables]
    /\ UNCHANGED <<db, seq, files, ocr, sess, mig, call>>

ChainInit ==
    /\ orgs \in {{}, {org_id}}
    /\ EmptyTables
    /\ seq = [employees |-> 1, shifts |-> 1, uploads |-> 1, runs |-> 1, files |-> 1]
    /\ ocr = FALSE
    /\ NoRequests
    /\ AsideIdle

ChainNext ==
    \/ ChainArrive("r1")
    \/ ChainStep("r1")
    \/ Recycle("r1")

ChainSpec == ChainInit /\ [][ChainNext]_vars

(***************************************************************************)
(* The migration commands, run against a database with no API at work: an  *)
(* empty database, or one where create_all has made the tables already.    *)
(***************************************************************************)
MigInit ==
    /\ mig \in {MigSettled({}, "base"), MigSettled(create_all, "base")}
    /\ call = NoCall
    /\ tally = NoTally
    /\ orgs = {}
    /\ EmptyTables
    /\ seq = [employees |-> 1, shifts |-> 1, uploads |-> 1, runs |-> 1, files |-> 1]
    /\ ocr = FALSE
    /\ NoRequests

MigNext ==
    \/ \E c \in {"upgrade", "downgrade"} : MigStart(c)
    \/ MigCreate
    \/ MigDrop
    \/ MigCommit
    \/ MigDbError

MigSpec == MigInit /\ [][MigNext]_vars

(***************************************************************************)
(* The functions of the extraction engine, called on their own.            *)
(***************************************************************************)
EngineInit ==
    /\ call = NoCall
    /\ mig = MigSettled(create_all, "base")
    /\ tally = NoTally
    /\ orgs = {}
    /\ EmptyTables
    /\ seq = [employees |-> 1, shifts |-> 1, uploads |-> 1, runs |-> 1, files |-> 1]
    /\ ocr = FALSE
    /\ NoRequests

EngineNext ==
    \/ CallInferTime
    \/ CallExtractCsv
    \/ CallExtractPreview

EngineSpec == EngineInit /\ [][EngineNext]_vars

(***************************************************************************)
(* Properties.                                                             *)
(***************************************************************************)
Code(r) == IF resp[r] = None THEN 0 ELSE resp[r][1].code

Cause(r) == IF resp[r] = None THEN "none" ELSE resp[r][1].cause

Body(r) == resp[r][1].body

\* the request returned from confirm_extraction and no other request ran
\* between its arrival and now
ConfirmedAlone(r) == kind[r] = "confirm" /\ pc[r] = "done" /\ ~overlap[r]

Org1(rows) == {e \in rows : e.org_id = 1}

\* the trimmed, non-empty employee names of a payload
SentNames(payload) ==
    {strip(payload.employees[k].name) : k \in 1..Len(payload.employees)} \ {<<>>}

\* C1: a confirm request run on its own inserts no employee row for a
\* trimmed name already stored for organization 1, exactly one row for each
\* trimmed non-empty name not yet stored (however often the payload repeats
\* it), and returns as employees_created the number of employee rows it
\* added.
C1_ConfirmDedup ==
    \A r \in Reqs :
        ConfirmedAlone(r) =>
            LET added == employees \ snap[r].employees
            IN  /\ \A n \in SentNames(input[r]) :
                      Cardinality({e \in Org1(added) : e.name = n})
                        = IF \E e \in Org1(snap[r].employees) : e.name = n
                          THEN 0 ELSE 1
                /\ Body(r).employees_created = Cardinality(added)

C1_Witness ==
    \E r \in Reqs :
        /\ ConfirmedAlone(r)
        /\ input[r].employees = <<[name |-> <<" ", "A", " ">>], [name |-> NameB]>>
        /\ \E e \in Org1(snap[r].employees) : e.name = NameA
        /\ \A e \in snap[r].employees : e.name # NameB
        /\ Body(r).employees_created = 1

\* C2: when two confirm requests submit the same new employee name and both
\* look the name up before either commits (neither lookup finds it), both
\* insert it: once both have committed, organization 1 holds two employee
\* rows with that name.
C2_RaceInsertsTwice ==
    \A r, q \in Reqs :
        (/\ r # q
         /\ kind[r] = "confirm" /\ kind[q] = "confirm"
         /\ Code(r) = 200 /\ Code(q) = 200)
        => \A n \in SentNames(input[r]) \cap SentNames(input[q]) :
              (n \notin local[r].found /\ n \notin local[q].found)
              => Cardinality({e \in Org1(employees) : e.name = n}) >= 2

C2_Witness ==
    /\ \A r \in Reqs : kind[r] = "confirm" /\ Code(r) = 200
    /\ \E e1, e2 \in Org1(employees) : e1.id # e2.id /\ e1.name = e2.name

\* C3: a confirm request that fails before its commit (an insert or the
\* commit raises) leaves the committed tables as they were when it arrived.
C3_AllOrNothing ==
    \A r \in Reqs :
        (kind[r] = "confirm" /\ Code(r) = 500 /\ ~overlap[r])
        => /\ employees = snap[r].employees
           /\ shifts = snap[r].shifts
           /\ uploads = snap[r].uploads
           /\ runs = snap[r].runs

C3_Witness ==
    \E r \in Reqs :
        /\ kind[r] = "confirm" /\ Code(r) = 500 /\ pc[r] = "ended"
        /\ local[r].inserted >= 1
        /\ local[r].shifts_inserted >= 1

\* the lower-cased extension of an uploaded file's name
SentExt(r) == lstrip(lower(suffix(input[r].filename)), ".")

Validated(r) == kind[r] = "upload" /\ pc[r] # "validate"

\* C4: an upload is answered 400 exactly when its lower-cased extension is
\* empty or not in the allowed set, whatever its size, and the detail names
\* the extension.
C4_ExtensionRejected ==
    \A r \in Reqs :
        Validated(r) =>
            LET bad == SentExt(r) = <<>> \/ SentExt(r) \notin allowed_file_types
            IN  /\ bad <=> Code(r) = 400
                /\ bad => Body(r).detail = <<"Unsupported file type", SentExt(r)>>

C4_Witness ==
    \E r \in Reqs :
        /\ Validated(r)
        /\ SentExt(r) = <<"e", "x", "e">>
        /\ input[r].size > max_upload_mb * 1024 * 1024
        /\ Code(r) = 400

\* C5: an upload is answered 413 exactly when its extension is allowed and
\* its size is strictly greater than max_upload_mb * 1024 * 1024; a file of
\* exactly that size passes the checks.
C5_SizeRejected ==
    \A r \in Reqs :
        Validated(r) =>
            LET allowed == SentExt(r) \in allowed_file_types
                limit == max_upload_mb * 1024 * 1024
            IN  /\ Code(r) = 413 <=> (allowed /\ input[r].size > limit)
                /\ (allowed /\ input[r].size = limit) => Code(r) \notin {400, 413}

C5_Witness ==
    \E r \in Reqs :
        /\ Validated(r)
        /\ SentExt(r) \in allowed_file_types
        /\ input[r].size = max_upload_mb * 1024 * 1024
        /\ pc[r] = "ins_upload"

\* C6: no upload that passes the extension and size checks fails at the
\* extraction step or at the insert of the upload row with org_id = 1.
C6_UploadNeverFails ==
    \A r \in Reqs :
        kind[r] = "upload" => Cause(r) \notin {"extraction", "integrity"}

\* C7: after a successful upload the committed ExtractionRun row of the
\* returned upload id holds the returned preview as result_json, the numbers
\* of its employee and shift records as confidence_summary, and
\* needs_review true exactly when its needs_review_fields is non-empty.
C7_RunMatchesPreview ==
    \A r \in Reqs :
        (kind[r] = "upload" /\ Code(r) = 200) =>
            \E run \in runs :
                /\ run.upload_id = Body(r).upload_id
                /\ \A other \in runs : other.upload_id = run.upload_id => other = run
                /\ run.result_json = Body(r).preview
                /\ run.confidence_summary.employees = Len(Body(r).preview.employees)
                /\ run.confidence_summary.shifts = Len(Body(r).preview.shifts)
                /\ run.needs_review <=> Body(r).preview.needs_review_fields # <<>>

C7_Witness ==
    \E r \in Reqs :
        /\ kind[r] = "upload" /\ Code(r) = 200
        /\ Len(Body(r).preview.employees) = 1
        /\ Len(Body(r).preview.shifts) = 1
        /\ Body(r).preview.needs_review_fields = <<>>
        /\ \E run \in runs : run.upload_id = Body(r).upload_id /\ ~run.needs_review

\* the items GET /shifts returns for the shift rows a request inserted
ListedFor(r, k) == {it \in list_shifts : it.id = local[r].shift_ids[k]}

\* C8 as stated: every shift sent to confirm comes back from GET /shifts
\* with the date, start_time and end_time strings that were sent.
C8_RoundTripIdentical ==
    \A r \in Reqs :
        ConfirmedAlone(r) =>
            \A k \in 1..Len(input[r].shifts) :
                \E it \in ListedFor(r, k) :
                    /\ it.date = input[r].shifts[k].sent.date
                    /\ it.start_time = input[r].shifts[k].sent.start_time
                    /\ it.end_time = input[r].shifts[k].sent.end_time

\* C8 amended: every shift sent to confirm comes back from GET /shifts with
\* the date string that was sent and with each time cut to its HH:MM part;
\* a time sent as HH:MM comes back as the identical string.
C8_RoundTripMinutes ==
    \A r \in Reqs :
        ConfirmedAlone(r) =>
            \A k \in 1..Len(input[r].shifts) :
                LET sent == input[r].shifts[k].sent
                IN  \E it \in ListedFor(r, k) :
                        /\ it.date = sent.date
                        /\ it.start_time = SubSeq(sent.start_time, 1, 2)
                        /\ it.end_time = SubSeq(sent.end_time, 1, 2)
                        /\ Len(sent.start_time) = 2 => it.start_time = sent.start_time
                        /\ Len(sent.end_time) = 2 => it.end_time = sent.end_time

C8_Witness ==
    \E r \in Reqs :
        /\ ConfirmedAlone(r)
        /\ Len(input[r].shifts) = 1
        /\ input[r].shifts[1].sent.start_time = <<9, 0>>
        /\ input[r].shifts[1].sent.end_time = <<17, 0>>
        /\ \E it \in ListedFor(r, 1) : it.start_time = <<9, 0>> /\ it.end_time = <<17, 0>>

\* the shift row a request inserted for its k-th shift input
ShiftRowsFor(r, k) == {s \in shifts : s.id = local[r].shift_ids[k]}

\* the organization-1 employees named as the k-th shift input is
NamedBy(r, k) ==
    {e \in Org1(employees) : e.name = strip(input[r].shifts[k].employee_name)}

\* C9 as stated: one shift row per shift input, whose employee_id is the id
\* of an organization-1 employee named as the shift's trimmed employee_name
\* whenever such an employee exists, and null only when none exists.
C9_ShiftEmployeeAnyExisting ==
    \A r \in Reqs :
        ConfirmedAlone(r) =>
            /\ Body(r).shifts_created = Len(input[r].shifts)
            /\ Cardinality(shifts \ snap[r].shifts) = Len(input[r].shifts)
            /\ \A k \in 1..Len(input[r].shifts) :
                  \E row \in ShiftRowsFor(r, k) :
                      IF NamedBy(r, k) = {} THEN row.employee_id = None
                      ELSE \E e \in NamedBy(r, k) : row.employee_id = Some(e.id)

\* C9 amended: one shift row per shift input; its employee_id is the id of an
\* organization-1 employee named as the shift's trimmed employee_name when
\* that name is among the trimmed non-empty names of the payload's employees,
\* and null otherwise, also when an employee of that name is stored.
C9_ShiftEmployeeListed ==
    \A r \in Reqs :
        ConfirmedAlone(r) =>
            /\ Body(r).shifts_created = Len(input[r].shifts)
            /\ Cardinality(shifts \ snap[r].shifts) = Len(input[r].shifts)
            /\ \A k \in 1..Len(input[r].shifts) :
                  \E row \in ShiftRowsFor(r, k) :
                      IF strip(input[r].shifts[k].employee_name) \in SentNames(input[r])
                      THEN \E e \in NamedBy(r, k) : row.employee_id = Some(e.id)
                      ELSE row.employee_id = None

C9_Witness ==
    \E r \in Reqs :
        /\ ConfirmedAlone(r)
        /\ input[r].employees = <<[name |-> NameB]>>
        /\ Len(input[r].shifts) = 1
        /\ input[r].shifts[1].employee_name = <<"B", " ">>
        /\ \E row \in ShiftRowsFor(r, 1) :
              \E e \in employees \ snap[r].employees :
                  e.name = NameB /\ row.employee_id = Some(e.id)

\* C10: a request holds an open session of its own while it runs; the
\* session is closed when the request has ended, however the handler ended;
\* and closing commits nothing (the step that closes the session leaves the
\* committed tables unchanged and discards the pending rows).
C10_SessionClosed ==
    [][\A r \in Reqs :
          /\ Active(r)' => sess'[r].open
          /\ (pc'[r] = "ended") => (~sess'[r].open /\ sess'[r].pending = NoPending)
          /\ (Active(r) /\ pc'[r] = "ended") => db' = db
          /\ (pc[r] = "idle" /\ Active(r)') => sess'[r] = NewSession]_vars

C10_Witness ==
    /\ pc["r1"] = "ended" /\ kind["r1"] = "confirm" /\ Code("r1") = 500
    /\ local["r1"].inserted >= 1
    /\ employees = {}
    /\ pc["r2"] = "ended" /\ Code("r2") = 400
    /\ \A r \in Reqs : ~sess[r].open

\* the commands of the log that ran to their commit, in their order
RanOk(log) == SelectSeq(log, LAMBDA e : e[2] = "ok")

\* C11: while upgrade and downgrade run, every table of the schema
\* references only tables of the schema, and no create_table or drop_table
\* fails for a table it depends on or that depends on it (nor, on a database
\* that was empty, for a table that exists already); after an upgrade and a
\* downgrade none of the five tables is left; and after upgrade, downgrade,
\* upgrade the schema is the one a single upgrade makes.
C11_MigrationOrder ==
    /\ \A t \in mig.schema : t.refs \subseteq table_names(mig.schema)
    /\ \A k \in 1..Len(mig.log) :
          /\ mig.log[k][2] \notin {"undefined table", "dependent objects"}
          /\ mig.origin = {} => mig.log[k][2] # "duplicate table"
    /\ (mig.cmd = NoCommand /\ Len(RanOk(mig.log)) = 2)
          => table_names(mig.committed) \cap table_names(create_all) = {}
    /\ (mig.cmd = NoCommand /\ Len(RanOk(mig.log)) \in {1, 3})
          => mig.committed = {upgrade[k] : k \in 1..Len(upgrade)}

C11_Witness ==
    /\ mig.log = <<<<"upgrade", "ok">>, <<"downgrade", "ok">>, <<"upgrade", "ok">>>>
    /\ table_names(mig.committed) =
          {"organizations", "employees", "timesheet_uploads", "extraction_runs", "shifts"}

\* C12: in every committed state of the database, every employee, upload
\* and shift row references an organization row, every extraction run
\* references an upload row, and every shift's employee_id is null or the
\* id of an employee row.
C12_ReferentialIntegrity ==
    /\ \A x \in employees \cup uploads \cup shifts : x.org_id \in orgs
    /\ \A x \in runs : \E u \in uploads : u.id = x.upload_id
    /\ \A s \in shifts :
          s.employee_id = None \/ \E e \in employees : e.id = s.employee_id[1]

\* an employee that a committed shift referenced has been deleted, and so has
\* the upload of an answered request
C12_Witness ==
    /\ \E r \in Reqs :
          /\ kind[r] = "confirm" /\ Code(r) = 200
          /\ Len(input[r].shifts) = 1
          /\ local[r].existing # {}
          /\ DictGet(local[r].existing, strip(input[r].shifts[1].employee_name)) # None
          /\ \E s \in shifts : s.id = local[r].shift_ids[1] /\ s.employee_id = None
    /\ \E r \in Reqs :
          /\ kind[r] = "upload" /\ Code(r) = 200
          /\ uploads = {} /\ runs = {}
    /\ orgs = {org_id}

\* C13: no step of an upload, confirm (whatever its upload_id) or list
\* request changes or removes a committed upload, extraction-run, employee
\* or shift row, and every committed upload has status "uploaded".
C13_RowsNeverChange ==
    [][/\ uploads \subseteq uploads'
       /\ runs \subseteq runs'
       /\ employees \subseteq employees'
       /\ shifts \subseteq shifts'
       /\ \A u \in uploads' : u.status = "uploaded"]_vars

\* a confirm for the upload of an answered upload request has returned
C13_Witness ==
    \E r, q \in Reqs :
        /\ kind[r] = "upload" /\ Code(r) = 200
        /\ kind[q] = "confirm" /\ Code(q) = 200
        /\ input[q].upload_id = Body(r).upload_id
        /\ local[q].inserted >= 1
        /\ \E u \in uploads : u.id = input[q].upload_id /\ u.status = "uploaded"
        /\ \E x \in runs : x.upload_id = input[q].upload_id

\* the set of the elements of a sequence
Range(items) == {items[k] : k \in 1..Len(items)}

\* C14: in a sheet with name, date, clock-in and clock-out columns (headed
\* "Clock In"/"Clock Out" or "Time In"/"Time Out"), every row with a name, a
\* date and a clock-in that parse and no clock-out gives a shift record
\* without end time, whose index is flagged as missing core fields.
C14_MissingClockOutKept ==
    (/\ call.fn = "extract_from_csv_xlsx"
     /\ call.arg.sheet.columns \in {<<Header.name, Header.date, Header.clock_in, Header.clock_out>>,
                                     <<Header.name, Header.date, Header.time_in, Header.time_out>>})
    => LET rows == call.arg.sheet.rows
           shs == call.result.shifts
       IN  \A k \in 1..Len(rows) :
               (/\ strip(rows[k][1].raw) # <<>>
                /\ rows[k][2].reads # None
                /\ rows[k][3].reads # None
                /\ rows[k][4] = NaN)
               => \E i \in 1..Len(shs) :
                      /\ shs[i].employee_name = Some(strip(rows[k][1].raw))
                      /\ shs[i].date = rows[k][2].reads
                      /\ shs[i].start_time = rows[k][3].reads
                      /\ shs[i].end_time = None
                      /\ <<"shift", i - 1, "missing core fields">>
                            \in Range(call.result.needs_review_fields)

\* C15: extract_preview on a path whose suffix is none of .csv, .tsv, .xlsx,
\* .xls, .pdf, with the OCR backend absent or raising, returns the preview
\* of file_type "image" with no employees, no shifts and the one flag
\* "image_ocr_not_available"; no exception reaches the caller.
C15_OcrFailureSwallowed ==
    (/\ call.fn = "extract_preview"
     /\ lower(suffix(call.arg.path)) \notin TabularSuffixes \cup {<<".", "p", "d", "f">>}
     /\ call.arg.ocr \in {"absent", "raises"})
    => call.result =
           Some([file_type |-> "image", employees |-> <<>>, shifts |-> <<>>,
                 needs_review_fields |-> << <<"image_ocr_not_available">> >>])

C15_Witness ==
    /\ call.fn = "extract_preview"
    /\ call.arg.path = <<"a", ".", "e", "x", "e">>
    /\ call.arg.ocr = "raises"
    /\ call.arg.content.kind = "text"
    /\ call.arg.content.lines # <<>>
    /\ call.result # None
    /\ call.result[1].needs_review_fields = << <<"image_ocr_not_available">> >>

\* C16: _infer_time returns HH:MM for a run of four digits HHMM with
\* HH <= 23 and MM <= 59, 0H:MM for a run of three digits HMM with MM <= 59,
\* and None for every other run of three or four digits.
C16_InvalidDigitsFail ==
    call.fn = "_infer_time" =>
        LET ds == call.arg
            hh == to_int(SubSeq(ds, 1, Len(ds) - 2))
            mm == to_int(SubSeq(ds, Len(ds) - 1, Len(ds)))
        IN  call.result = IF hh <= 23 /\ mm <= 59 THEN Some(time(hh, mm)) ELSE None

\* the preview a call of the engine returned, if it returned one
Returned_previews ==
    IF call.fn = "extract_from_csv_xlsx" THEN {call.result}
    ELSE IF call.fn = "extract_preview" /\ call.result # None THEN {call.result[1]}
    ELSE {}

\* C17: in every preview the engine returns, the raw_text of every employee
\* record and of every shift record has at most 500 characters.
C17_RawTextBounded ==
    \A p \in Returned_previews :
        /\ \A k \in 1..Len(p.employees) : Len(p.employees[k].raw_text) <= 500
        /\ \A k \in 1..Len(p.shifts) : Len(p.shifts[k].raw_text) <= 500

\* C18: in a sheet with date, clock-in, lunch-start, lunch-end and clock-out
\* columns in any order, every row whose date and four times parse gives a
\* shift from the clock-in to the clock-out time whose unpaid_break_min is
\* (lunch start - clock-in) + (clock-out - lunch end) in minutes.
C18_SplitShiftTimes ==
    (/\ call.fn = "extract_from_csv_xlsx"
     /\ Range(call.arg.sheet.columns) =
            {Header.date, Header.clock_in, Header.lunch_start, Header.lunch_end, Header.clock_out})
    => LET columns == call.arg.sheet.columns
           rows == call.arg.sheet.rows
           shs == call.result.shifts
           at(row, header) == row[CHOOSE k \in 1..Len(columns) : columns[k] = header].reads
       IN  \A k \in 1..Len(rows) :
               (\A header \in Range(columns) : at(rows[k], header) # None)
               => \E i \in 1..Len(shs) :
                      /\ shs[i].date = at(rows[k], Header.date)
                      /\ shs[i].start_time = at(rows[k], Header.clock_in)
                      /\ shs[i].end_time = at(rows[k], Header.clock_out)
                      /\ shs[i].unpaid_break_min =
                            Some(((seconds(at(rows[k], Header.lunch_start)[1])
                                     - seconds(at(rows[k], Header.clock_in)[1]))
                                  + (seconds(at(rows[k], Header.clock_out)[1])
                                     - seconds(at(rows[k], Header.lunch_end)[1]))) \div 60)

\* C19: the needs_review_fields of a preview of extract_from_csv_xlsx holds
\* the entry "shift[i] missing core fields" for exactly the indices i of the
\* shift records without employee name, date, start time or end time (a
\* time of 00:00 is a time), each once, and no other entry.
C19_FlagsExactlyIncomplete ==
    call.fn = "extract_from_csv_xlsx"
    => LET shs == call.result.shifts
           flags == call.result.needs_review_fields
           flag(i) == <<"shift", i, "missing core fields">>
       IN  /\ \A i \in 1..Len(shs) :
                 flag(i - 1) \in Range(flags)
                 <=> \/ shs[i].employee_name = None
                     \/ shs[i].date = None
                     \/ shs[i].start_time = None
                     \/ shs[i].end_time = None
           /\ \A f \in Range(flags) : \E i \in 1..Len(shs) : f = flag(i - 1)
           /\ Cardinality(Range(flags)) = Len(flags)

C19_Witness ==
    /\ call.fn = "extract_from_csv_xlsx"
    /\ Len(call.result.shifts) = 2
    /\ call.result.shifts[1].employee_name # None
    /\ call.result.shifts[1].start_time = Some(time(0, 0))
    /\ call.result.shifts[1].end_time = Some(time(17, 0))
    /\ call.result.shifts[2].end_time = None
    /\ call.result.needs_review_fields = << <<"shift", 1, "missing core fields">> >>

\* C20: with confirm requests served one at a time from empty tables,
\* organization 1 never holds two employee rows of one name, every stored
\* name is non-empty and trimmed, and once every response is counted the
\* sum of the employees_created returned is the number of employee rows.
C20_ChainKeepsNamesUnique ==
    /\ \A e1, e2 \in Org1(employees) : e1.name = e2.name => e1.id = e2.id
    /\ \A e \in employees : e.name # <<>> /\ strip(e.name) = e.name
    /\ pc["r1"] = "idle" => tally.created = Cardinality(employees)

C20_Witness ==
    /\ pc["r1"] = "idle"
    /\ tally.ended = MaxReqs
    /\ tally.created = 2
    /\ {e.name : e \in Org1(employees)} = {NameA, NameB}
    /\ Cardinality(employees) = 2

\* C21: in every committed state of the database each upload row has
\* exactly one extraction-run row that refers to it.
C21_OneRunPerUpload ==
    \A u \in uploads : Cardinality({x \in runs : x.upload_id = u.id}) = 1

C21_Witness ==
    \E r, q \in Reqs :
        /\ kind[r] = "upload" /\ Code(r) = 200
        /\ kind[q] = "upload" /\ Code(q) = 500 /\ Cause(q) = "db_error"
        /\ local[q].upload_id # None
        /\ pc[q] = "ended"
        /\ Cardinality(uploads) = 1
        /\ Cardinality(runs) = 1

\* C22: an upload answered 400 or 413 leaves the storage directory and every
\* table as they were when it arrived; an upload that passed the checks and
\* failed at an insert or at the commit leaves the file it saved in the
\* storage directory and no committed upload or run row: no upload row
\* refers to the file.
C22_RejectedOrFailedUpload ==
    \A r \in Reqs :
        kind[r] = "upload" =>
            /\ Code(r) \in {400, 413} =>
                  /\ Tables = snap[r]
                  /\ sess[r].pending = NoPending
                  /\ local[r].saved_path = None
            /\ (Code(r) = 500 /\ Cause(r) \in {"db_error", "integrity"}) =>
                  /\ local[r].saved_path # None
                  /\ files = snap[r].files
                               \cup {[path |-> local[r].saved_path[1],
                                      content |-> input[r].content]}
                  /\ files # snap[r].files
                  /\ uploads = snap[r].uploads
                  /\ runs = snap[r].runs
                  /\ \A u \in uploads : u.file_url # local[r].saved_path[1]

C22_Witness ==
    \E r \in Reqs :
        /\ kind[r] = "upload"
        /\ Code(r) = 500 /\ Cause(r) = "db_error"
        /\ local[r].upload_id # None
        /\ pc[r] = "ended"
        /\ Cardinality(files) = 1
        /\ uploads = {} /\ runs = {}

====
